---- MODULE Spec2Model ----
(***************************************************************************)
(* Model of the vaccination-tracking App component (src/App.tsx) and its   *)
(* data types (src/unnamed/part_000).                                      *)
(*                                                                         *)
(* The React component keeps patients, vaccines and dashboardStats in      *)
(* useState cells.  A handler is a closure over the values of the render   *)
(* that created it (`rendered`); the updater functions it queues run on    *)
(* the current cell values.  Spec re-renders after every handler call;     *)
(* SpecBatched lets several handler calls run from one rendered closure.   *)
(***************************************************************************)
EXTENDS Integers, Sequences, FiniteSets, TLC

VARIABLES view, patients, vaccines, dashboardStats, loading, error,
          fetching, rendered, pending, intent

vars == <<view, patients, vaccines, dashboardStats, loading, error,
          fetching, rendered, pending, intent>>

----------------------------------------------------------------------------
\* Bounds of the model

MaxPatients == 2
MaxVaccines == 2
MaxHistory == 2
\* doses counted by totalDosesAdministered in one session
MaxDoses == 4
\* handler calls that can be issued from one rendered closure
MaxBatch == 2

----------------------------------------------------------------------------
\* Types (src/unnamed/part_000)

NotVaccinated == "Not Vaccinated"
PartiallyVaccinated == "Partially Vaccinated"
FullyVaccinated == "Fully Vaccinated"

VaccinationStatus == {NotVaccinated, PartiallyVaccinated, FullyVaccinated}

View == {"dashboard", "patients", "vaccines"}

\* dashboardStats === null
Null == [null |-> TRUE]

\* error === null
NoError == "null"

\* an optional argument or field that is absent
Undefined == "undefined"

Vaccine(id, name, dosesRequired, inStock) ==
    [id |-> id, name |-> name, dosesRequired |-> dosesRequired, inStock |-> inStock]

VaccinationRecord(vaccineId, vaccineName) ==
    [vaccineId |-> vaccineId, vaccineName |-> vaccineName, date |-> "2026-01-01"]

Patient(id, status, vaccinationHistory) ==
    [id |-> id, age |-> 30, status |-> status,
     vaccinationHistory |-> vaccinationHistory, nextDoseDate |-> Undefined]

DosesByManufacturer(name, doses) == [name |-> name, doses |-> doses]

VaccinationsByAgeGroup(ageGroup, vaccinated, total) ==
    [ageGroup |-> ageGroup, vaccinated |-> vaccinated, total |-> total]

DashboardStats(total, doses, fully, byManufacturer, byAgeGroup) ==
    [totalPatients |-> total,
     totalDosesAdministered |-> doses,
     fullyVaccinatedCount |-> fully,
     dosesByManufacturer |-> byManufacturer,
     vaccinationsByAgeGroup |-> byAgeGroup]

MockData(ps, stats, vs) == [patients |-> ps, dashboardStats |-> stats, vaccines |-> vs]

----------------------------------------------------------------------------
\* Array lookups of the handlers

\* arr.some(x => x.id === id)
HasId(arr, id) == \E i \in 1..Len(arr) : arr[i].id = id

\* arr.some(d => d.name === name)
HasName(arr, name) == \E i \in 1..Len(arr) : arr[i].name = name

\* arr.find(x => x.id === id): the index of the first match, 0 for undefined
FindById(arr, id) ==
    IF HasId(arr, id)
    THEN CHOOSE i \in 1..Len(arr) :
            arr[i].id = id /\ \A j \in 1..(i - 1) : arr[j].id # id
    ELSE 0

Ids(arr) == {arr[i].id : i \in 1..Len(arr)}

----------------------------------------------------------------------------
\* Status derivation (utils/vaccineUtils, see the specification, section 4.1)

\* doses of the vaccine with this id in a history
DosesReceived(history, vaccineId) ==
    Cardinality({i \in 1..Len(history) : history[i].vaccineId = vaccineId})

\* Not Vaccinated: empty history.  Fully Vaccinated: a series has been started
\* and every started series that resolves in the catalog has reached the
\* doses the vaccine requires.  A record whose vaccineId does not resolve is
\* ignored when counting doses.  Partially Vaccinated: otherwise.
getPatientStatus(history, catalog) ==
    LET resolved == {i \in 1..Len(history) : HasId(catalog, history[i].vaccineId)}
        complete(i) ==
            LET v == catalog[FindById(catalog, history[i].vaccineId)]
            IN  DosesReceived(history, v.id) >= v.dosesRequired
    IN  [status |-> IF Len(history) = 0 THEN NotVaccinated
                    ELSE IF resolved # {} /\ \A i \in resolved : complete(i)
                         THEN FullyVaccinated
                         ELSE PartiallyVaccinated]

----------------------------------------------------------------------------
\* Inputs

PatientIds == {"p1", "p2"}
UnknownPatientId == "p9"
VaccineIds == {"v1", "v2", "v3"}
UnknownVaccineId == "v9"

Pfizer == "Pfizer-BioNTech"
JohnsonAndJohnson == "Johnson & Johnson"
Moderna == "Moderna"
Sinovac == "Sinovac"

\* records the patient view can hand to onAdministerVaccine
Records ==
    {VaccinationRecord("v1", Pfizer), VaccinationRecord("v2", JohnsonAndJohnson),
     VaccinationRecord(UnknownVaccineId, Sinovac)}

NextDoseDates == {Undefined}

\* the calls of onAdministerVaccine: every record for every listed patient,
\* and one call that names a patient who is not in the list
AdministerCalls ==
    {<<id, r, d>> : id \in PatientIds, r \in Records, d \in NextDoseDates}
    \cup {<<UnknownPatientId, VaccinationRecord("v1", Pfizer), Undefined>>}

\* patients the patient view can hand to onAddPatient
NewPatients ==
    {Patient(id, st, <<>>) : id \in PatientIds, st \in {NotVaccinated, FullyVaccinated}}

\* vaccines the vaccine view can hand to onAddVaccine
NewVaccines ==
    {Vaccine("v2", Pfizer, 1, 1), Vaccine("v3", Moderna, 2, 0)}

\* Snapshots generateMockData can resolve to (services/geminiService); each
\* is consistent: statuses are derived from the histories and the statistics
\* count the patient list.
SnapshotScenario ==
    MockData(<<Patient("p1", NotVaccinated, <<>>)>>,
             DashboardStats(1, 0, 0, <<DosesByManufacturer(Pfizer, 0)>>,
                            <<VaccinationsByAgeGroup("18-49", 0, 1)>>),
             <<Vaccine("v1", Pfizer, 2, 10)>>)

SnapshotLowStock ==
    MockData(<<Patient("p1", PartiallyVaccinated, <<VaccinationRecord("v1", Pfizer)>>)>>,
             DashboardStats(1, 1, 0,
                            <<DosesByManufacturer(Pfizer, 1),
                              DosesByManufacturer(JohnsonAndJohnson, 0)>>,
                            <<VaccinationsByAgeGroup("18-49", 1, 1)>>),
             <<Vaccine("v1", Pfizer, 2, 1), Vaccine("v2", JohnsonAndJohnson, 1, 0)>>)

Snapshots == {SnapshotScenario, SnapshotLowStock}

\* a response that lacks one of the three required members
IncompleteData == [patients |-> <<>>, vaccines |-> <<>>]

\* e.message of a rejected call; "" stands for an error without a message
ErrorMessages == {"API_KEY environment variable not set", ""}

InvalidDataMessage == "Failed to fetch valid data structure from the service."
UnexpectedErrorMessage == "An unexpected error occurred while fetching data."

----------------------------------------------------------------------------
\* State after construction: the useState initial values, and the mount
\* effect has issued fetchData.

\* `intent` is the last call made on the component: the mount effect, a
\* Retry click or a mutation handler with its arguments
FetchIntent == [op |-> "fetchData"]

Init ==
    /\ view = "dashboard"
    /\ patients = <<>>
    /\ vaccines = <<>>
    /\ dashboardStats = Null
    /\ loading = TRUE
    /\ error = NoError
    /\ fetching = TRUE
    /\ rendered = [patients |-> <<>>, vaccines |-> <<>>, dashboardStats |-> Null]
    /\ pending = 0
    /\ intent = FetchIntent

\* the render that follows a state update: handlers close over the new values
Rerender ==
    /\ rendered' = [patients |-> patients', vaccines |-> vaccines',
                    dashboardStats |-> dashboardStats']
    /\ pending' = 0

\* no render yet: the next handler call comes from the same closure
Batched ==
    /\ pending < MaxBatch
    /\ pending' = pending + 1
    /\ UNCHANGED rendered

\* renderContent shows the views (and so offers the handlers) only when
\* neither the spinner nor the error panel is shown
DataView == ~loading /\ error = NoError

----------------------------------------------------------------------------
\* fetchData up to its await: the Retry button of the error panel (the
\* first call, from the mount effect, is part of Init)
\* fetchData offered in the data view as well as on the error panel
fetchDataFromAnyView ==
    /\ ~loading
    /\ loading' = TRUE
    /\ error' = NoError
    /\ fetching' = TRUE
    /\ intent' = FetchIntent
    /\ UNCHANGED <<view, patients, vaccines, dashboardStats>>
    /\ Rerender

fetchData ==
    /\ ~loading /\ error # NoError
    /\ loading' = TRUE
    /\ error' = NoError
    /\ fetching' = TRUE
    /\ intent' = FetchIntent
    /\ UNCHANGED <<view, patients, vaccines, dashboardStats>>
    /\ Rerender

\* fetchDataResolved installing whatever the snapshot holds, without the
\* test that its three parts are there
fetchDataResolvedNoCheck(mockData) ==
    /\ fetching
    /\ patients' = mockData.patients
    /\ vaccines' = mockData.vaccines
    /\ dashboardStats' = IF "dashboardStats" \in DOMAIN mockData
                         THEN mockData.dashboardStats
                         ELSE Null
    /\ error' = error
    /\ loading' = FALSE
    /\ fetching' = FALSE
    /\ UNCHANGED <<view, intent>>
    /\ Rerender

\* generateMockData resolved: the try block after the await, then finally
fetchDataResolved(mockData) ==
    /\ fetching
    /\ IF /\ "patients" \in DOMAIN mockData
          /\ "dashboardStats" \in DOMAIN mockData
          /\ "vaccines" \in DOMAIN mockData
       THEN /\ patients' = mockData.patients
            /\ dashboardStats' = mockData.dashboardStats
            /\ vaccines' = mockData.vaccines
            /\ error' = error
       ELSE /\ error' = InvalidDataMessage
            /\ UNCHANGED <<patients, vaccines, dashboardStats>>
    /\ loading' = FALSE
    /\ fetching' = FALSE
    /\ UNCHANGED <<view, intent>>
    /\ Rerender

\* fetchDataRejected showing e.message as it is, without the fallback text
fetchDataRejectedNoFallback(message) ==
    /\ fetching
    /\ error' = message
    /\ loading' = FALSE
    /\ fetching' = FALSE
    /\ UNCHANGED <<view, patients, vaccines, dashboardStats, intent>>
    /\ Rerender

\* generateMockData rejected: the catch block, then finally
fetchDataRejected(message) ==
    /\ fetching
    /\ error' = IF message # "" THEN message ELSE UnexpectedErrorMessage
    /\ loading' = FALSE
    /\ fetching' = FALSE
    /\ UNCHANGED <<view, patients, vaccines, dashboardStats, intent>>
    /\ Rerender

\* Sidebar: setView
setView(v) ==
    /\ view' = v
    /\ UNCHANGED <<patients, vaccines, dashboardStats, loading, error, fetching, intent>>
    /\ Rerender

----------------------------------------------------------------------------
\* Mutation handlers.  Each reads the closure `rendered` and queues updater
\* functions, which are applied to the current cells.

\* the three cells as one value: what a render closes over and what the
\* queued updaters run on
Cells == [patients |-> patients, vaccines |-> vaccines, dashboardStats |-> dashboardStats]

\* addPatientStats counting a dose for the new patient as well
addPatientStatsCountsDose(prev) ==
    IF prev = Null THEN Null
    ELSE [prev EXCEPT !.totalPatients = @ + 1,
                      !.totalDosesAdministered = @ + 1]

\* the setDashboardStats updater of addPatient
addPatientStats(prev) ==
    IF prev = Null THEN Null
    ELSE [prev EXCEPT !.totalPatients = @ + 1]

\* addPatient run from the closure `closure` on the cells `cur`
addPatientCells(closure, cur, patient) ==
    [patients |-> <<patient>> \o cur.patients,
     vaccines |-> cur.vaccines,
     dashboardStats |-> IF closure.dashboardStats # Null
                        THEN addPatientStats(cur.dashboardStats)
                        ELSE cur.dashboardStats]

addPatient(patient) ==
    /\ DataView /\ view = "patients"
    /\ Len(patients) < MaxPatients
    /\ patient.id \notin Ids(patients)
    /\ LET next == addPatientCells(rendered, Cells, patient)
       IN  /\ patients' = next.patients
           /\ vaccines' = next.vaccines
           /\ dashboardStats' = next.dashboardStats
    /\ intent' = [op |-> "addPatient", patient |-> patient]
    /\ UNCHANGED <<view, loading, error, fetching>>

\* addVaccineStats without the check for an entry of the same name
addVaccineStatsNoNameCheck(prev, vaccine) ==
    IF prev = Null THEN Null
    ELSE [prev EXCEPT !.dosesByManufacturer =
                         Append(@, DosesByManufacturer(vaccine.name, 0))]

\* addVaccineStats starting the entry of a listed name again from 0
addVaccineStatsResetsEntry(prev, vaccine) ==
    IF prev = Null THEN Null
    ELSE IF HasName(prev.dosesByManufacturer, vaccine.name)
         THEN [prev EXCEPT !.dosesByManufacturer =
                  [i \in 1..Len(@) |->
                      IF @[i].name = vaccine.name
                      THEN DosesByManufacturer(vaccine.name, 0)
                      ELSE @[i]]]
         ELSE [prev EXCEPT !.dosesByManufacturer =
                              Append(@, DosesByManufacturer(vaccine.name, 0))]

\* the setDashboardStats updater of addVaccine
addVaccineStats(prev, vaccine) ==
    IF prev = Null THEN Null
    ELSE IF HasName(prev.dosesByManufacturer, vaccine.name)
         THEN prev
         ELSE [prev EXCEPT !.dosesByManufacturer =
                              Append(@, DosesByManufacturer(vaccine.name, 0))]

\* addVaccine run from the closure `closure` on the cells `cur`
addVaccineCells(closure, cur, vaccine) ==
    [patients |-> cur.patients,
     vaccines |-> <<vaccine>> \o cur.vaccines,
     dashboardStats |-> IF closure.dashboardStats # Null
                        THEN addVaccineStats(cur.dashboardStats, vaccine)
                        ELSE cur.dashboardStats]

addVaccine(vaccine) ==
    /\ DataView /\ view = "vaccines"
    /\ Len(vaccines) < MaxVaccines
    /\ vaccine.id \notin Ids(vaccines)
    /\ LET next == addVaccineCells(rendered, Cells, vaccine)
       IN  /\ patients' = next.patients
           /\ vaccines' = next.vaccines
           /\ dashboardStats' = next.dashboardStats
    /\ intent' = [op |-> "addVaccine", vaccine |-> vaccine]
    /\ UNCHANGED <<view, loading, error, fetching>>

\* administerPatients without the test of the patient's id
administerPatientsNoIdTest(prevPatients, patientId, updatedHistory, newStatus, nextDoseDateInput) ==
    [i \in 1..Len(prevPatients) |->
        [prevPatients[i] EXCEPT !.vaccinationHistory = updatedHistory,
                                !.status = newStatus,
                                !.nextDoseDate = nextDoseDateInput]]

\* the setPatients updater of handleAdministerVaccine
administerPatients(prevPatients, patientId, updatedHistory, newStatus, nextDoseDateInput) ==
    [i \in 1..Len(prevPatients) |->
        IF prevPatients[i].id = patientId
        THEN [prevPatients[i] EXCEPT !.vaccinationHistory = updatedHistory,
                                     !.status = newStatus,
                                     !.nextDoseDate = nextDoseDateInput]
        ELSE prevPatients[i]]

\* administerVaccines matching the vaccine by name instead of by id
administerVaccinesByName(prevVaccines, newRecord) ==
    [i \in 1..Len(prevVaccines) |->
        IF prevVaccines[i].name = newRecord.vaccineName
        THEN [prevVaccines[i] EXCEPT !.inStock = @ - 1]
        ELSE prevVaccines[i]]

\* the setVaccines updater of handleAdministerVaccine
administerVaccines(prevVaccines, newRecord) ==
    [i \in 1..Len(prevVaccines) |->
        IF prevVaccines[i].id = newRecord.vaccineId
        THEN [prevVaccines[i] EXCEPT !.inStock = @ - 1]
        ELSE prevVaccines[i]]

\* updatedDoses pushing a new entry without looking for the name
updatedDosesAlwaysPush(prev, newRecord) ==
    Append(prev.dosesByManufacturer, DosesByManufacturer(newRecord.vaccineName, 1))

\* the dosesByManufacturer of the setDashboardStats updater
updatedDoses(prev, newRecord) ==
    LET mapped == [i \in 1..Len(prev.dosesByManufacturer) |->
                      IF prev.dosesByManufacturer[i].name = newRecord.vaccineName
                      THEN [prev.dosesByManufacturer[i] EXCEPT !.doses = @ + 1]
                      ELSE prev.dosesByManufacturer[i]]
    IN  IF ~HasName(mapped, newRecord.vaccineName)
        THEN Append(mapped, DosesByManufacturer(newRecord.vaccineName, 1))
        ELSE mapped

\* updatedFullyVaccinatedCount without the test of the previous status
updatedFullyVaccinatedCountNoPrevious(prev, wasPreviouslyFullyVaccinated, isNowFullyVaccinated) ==
    IF isNowFullyVaccinated
    THEN prev.fullyVaccinatedCount + 1
    ELSE prev.fullyVaccinatedCount

\* the fullyVaccinatedCount of the setDashboardStats updater
updatedFullyVaccinatedCount(prev, wasPreviouslyFullyVaccinated, isNowFullyVaccinated) ==
    IF ~wasPreviouslyFullyVaccinated /\ isNowFullyVaccinated
    THEN prev.fullyVaccinatedCount + 1
    ELSE prev.fullyVaccinatedCount

\* administerStats counting no dose for a patient who was fully vaccinated
administerStatsSkipsFullyVaccinated(prev, newRecord, wasPreviouslyFullyVaccinated, isNowFullyVaccinated) ==
    IF prev = Null THEN Null
    ELSE [prev EXCEPT
            !.totalDosesAdministered =
                IF wasPreviouslyFullyVaccinated THEN @ ELSE @ + 1,
            !.fullyVaccinatedCount =
                updatedFullyVaccinatedCount(prev, wasPreviouslyFullyVaccinated,
                                            isNowFullyVaccinated),
            !.dosesByManufacturer = updatedDoses(prev, newRecord)]

\* the setDashboardStats updater of handleAdministerVaccine
administerStats(prev, newRecord, wasPreviouslyFullyVaccinated, isNowFullyVaccinated) ==
    IF prev = Null THEN Null
    ELSE [prev EXCEPT
            !.totalDosesAdministered = @ + 1,
            !.fullyVaccinatedCount =
                updatedFullyVaccinatedCount(prev, wasPreviouslyFullyVaccinated,
                                            isNowFullyVaccinated),
            !.dosesByManufacturer = updatedDoses(prev, newRecord)]

\* administerUpdate deriving the status from the history before the new record
administerUpdateStatusOfOldHistory(closure, cur, patientToUpdate, newRecord, nextDoseDateInput) ==
    LET wasPreviouslyFullyVaccinated == patientToUpdate.status = FullyVaccinated
        updatedHistory == Append(patientToUpdate.vaccinationHistory, newRecord)
        newStatus == getPatientStatus(patientToUpdate.vaccinationHistory,
                                      closure.vaccines).status
        isNowFullyVaccinated == newStatus = FullyVaccinated
    IN  [patients |-> administerPatients(cur.patients, patientToUpdate.id, updatedHistory,
                                         newStatus, nextDoseDateInput),
         vaccines |-> administerVaccines(cur.vaccines, newRecord),
         dashboardStats |-> IF closure.dashboardStats # Null
                            THEN administerStats(cur.dashboardStats, newRecord,
                                                 wasPreviouslyFullyVaccinated,
                                                 isNowFullyVaccinated)
                            ELSE cur.dashboardStats]

\* handleAdministerVaccine after its early return, run from `closure` on `cur`
administerUpdate(closure, cur, patientToUpdate, newRecord, nextDoseDateInput) ==
    LET wasPreviouslyFullyVaccinated == patientToUpdate.status = FullyVaccinated
        updatedHistory == Append(patientToUpdate.vaccinationHistory, newRecord)
        newStatus == getPatientStatus(updatedHistory, closure.vaccines).status
        isNowFullyVaccinated == newStatus = FullyVaccinated
    IN  [patients |-> administerPatients(cur.patients, patientToUpdate.id, updatedHistory,
                                         newStatus, nextDoseDateInput),
         vaccines |-> administerVaccines(cur.vaccines, newRecord),
         dashboardStats |-> IF closure.dashboardStats # Null
                            THEN administerStats(cur.dashboardStats, newRecord,
                                                 wasPreviouslyFullyVaccinated,
                                                 isNowFullyVaccinated)
                            ELSE cur.dashboardStats]

\* administerCells with the stock update queued before the early return
administerCellsStockFirst(closure, cur, patientId, newRecord, nextDoseDateInput) ==
    LET found == FindById(closure.patients, patientId)
    IN  IF found = 0
        THEN [cur EXCEPT !.vaccines = administerVaccines(cur.vaccines, newRecord)]
        ELSE administerUpdate(closure, cur, closure.patients[found], newRecord,
                              nextDoseDateInput)

\* handleAdministerVaccine run from the closure `closure` on the cells `cur`
administerCells(closure, cur, patientId, newRecord, nextDoseDateInput) ==
    LET found == FindById(closure.patients, patientId)
    IN  IF found = 0
        THEN cur
        ELSE administerUpdate(closure, cur, closure.patients[found], newRecord,
                              nextDoseDateInput)

\* the calls the bounds of the model leave out
WithinBounds(patientId, newRecord) ==
    LET found == FindById(rendered.patients, patientId)
    IN  found # 0 =>
          /\ Len(rendered.patients[found].vaccinationHistory) < MaxHistory
          /\ dashboardStats # Null => dashboardStats.totalDosesAdministered < MaxDoses

handleAdministerVaccine(patientId, newRecord, nextDoseDateInput) ==
    /\ DataView /\ view = "patients"
    /\ WithinBounds(patientId, newRecord)
    /\ LET next == administerCells(rendered, Cells, patientId, newRecord, nextDoseDateInput)
       IN  /\ patients' = next.patients
           /\ vaccines' = next.vaccines
           /\ dashboardStats' = next.dashboardStats
    /\ intent' = [op |-> "handleAdministerVaccine", patientId |-> patientId,
                  newRecord |-> newRecord, nextDoseDateInput |-> nextDoseDateInput]
    /\ UNCHANGED <<view, loading, error, fetching>>

\* a render after handler calls that were batched
Render ==
    /\ pending > 0
    /\ rendered' = [patients |-> patients, vaccines |-> vaccines,
                    dashboardStats |-> dashboardStats]
    /\ pending' = 0
    /\ UNCHANGED <<view, patients, vaccines, dashboardStats, loading, error,
                   fetching, intent>>

----------------------------------------------------------------------------
\* Spec: React renders after every event, so every handler call reads the
\* state the previous call produced.

Next ==
    \/ fetchData
    \/ \E mockData \in Snapshots \cup {IncompleteData} : fetchDataResolved(mockData)
    \/ \E message \in ErrorMessages : fetchDataRejected(message)
    \/ \E v \in View : setView(v)
    \/ \E patient \in NewPatients : addPatient(patient) /\ Rerender
    \/ \E vaccine \in NewVaccines : addVaccine(vaccine) /\ Rerender
    \/ \E call \in AdministerCalls :
            handleAdministerVaccine(call[1], call[2], call[3]) /\ Rerender

Spec == Init /\ [][Next]_vars

\* SpecBatched: handler calls may be issued from the same rendered closure
\* before the component renders again.

NextBatched ==
    \/ fetchData
    \/ \E mockData \in Snapshots \cup {IncompleteData} : fetchDataResolved(mockData)
    \/ \E message \in ErrorMessages : fetchDataRejected(message)
    \/ \E v \in View : setView(v)
    \/ \E patient \in NewPatients : addPatient(patient) /\ Batched
    \/ \E vaccine \in NewVaccines : addVaccine(vaccine) /\ Batched
    \/ \E call \in AdministerCalls :
            handleAdministerVaccine(call[1], call[2], call[3]) /\ Batched
    \/ Render

SpecBatched == Init /\ [][NextBatched]_vars

TypeOK ==
    /\ view \in View
    /\ loading \in BOOLEAN
    /\ fetching \in BOOLEAN
    /\ Len(patients) <= MaxPatients
    /\ Len(vaccines) <= MaxVaccines

----------------------------------------------------------------------------
\* Statistics recomputed from scratch over the patient list

\* the sum of a sequence of numbers
Sum(numbers) ==
    LET s[i \in 0..Len(numbers)] == IF i = 0 THEN 0 ELSE s[i - 1] + numbers[i]
    IN  s[Len(numbers)]

CountPatients(ps) == Len(ps)

CountDoses(ps) == Sum([i \in 1..Len(ps) |-> Len(ps[i].vaccinationHistory)])

CountFullyVaccinated(ps) ==
    Cardinality({i \in 1..Len(ps) : ps[i].status = FullyVaccinated})

CountDosesNamed(ps, name) ==
    Sum([k \in 1..Len(ps) |->
            Cardinality({i \in 1..Len(ps[k].vaccinationHistory) :
                            ps[k].vaccinationHistory[i].vaccineName = name})])

\* doses the statistics record under a name (0 when the name has no entry)
DosesOf(stats, name) ==
    Sum([i \in 1..Len(stats.dosesByManufacturer) |->
            IF stats.dosesByManufacturer[i].name = name
            THEN stats.dosesByManufacturer[i].doses ELSE 0])

VaccineNames == {Pfizer, JohnsonAndJohnson, Moderna, Sinovac}

\* patients the age groups count, over all groups
AgeGroupTotal(stats) ==
    Sum([i \in 1..Len(stats.vaccinationsByAgeGroup) |->
            stats.vaccinationsByAgeGroup[i].total])

HasPatient(ps, patientId) == HasId(ps, patientId)

HasVaccine(vs, vaccineId) == HasId(vs, vaccineId)

PatientWithId(ps, patientId) == ps[FindById(ps, patientId)]

----------------------------------------------------------------------------
\* C1: whenever statistics are present, the incrementally maintained
\* statistics equal the statistics recomputed from scratch over the patient
\* list: the patient count, the dose count, the fully vaccinated count, the
\* doses per vaccine name, and the age groups' totals, which add up to the
\* patient count whatever the grouping.
StatsEqualRecomputed ==
    dashboardStats # Null =>
        /\ dashboardStats.totalPatients = CountPatients(patients)
        /\ dashboardStats.totalDosesAdministered = CountDoses(patients)
        /\ dashboardStats.fullyVaccinatedCount = CountFullyVaccinated(patients)
        /\ \A name \in VaccineNames :
              DosesOf(dashboardStats, name) = CountDosesNamed(patients, name)
        /\ AgeGroupTotal(dashboardStats) = CountPatients(patients)

\* C2: every patient's stored status is the status derived from that
\* patient's history and the current catalog.
StatusIsDerived ==
    \A i \in 1..Len(patients) :
        patients[i].status =
            getPatientStatus(patients[i].vaccinationHistory, vaccines).status

\* C4: whenever statistics are present, fullyVaccinatedCount is the number
\* of patients in the list whose status is Fully Vaccinated.
FullyVaccinatedCountIsExact ==
    dashboardStats # Null =>
        dashboardStats.fullyVaccinatedCount = CountFullyVaccinated(patients)

\* C7: the stock of every vaccine in the catalog is never negative.
StockNeverNegative ==
    \A i \in 1..Len(vaccines) : vaccines[i].inStock >= 0

----------------------------------------------------------------------------
\* C3: a mutation issued from a rendered closure (an administerVaccine call
\* for a patient that closure lists) changes the cells exactly as the same
\* mutation applied to the current cells would, so two calls from one
\* closure equal the two applied one after the other; and an
\* administerVaccine call adds as many doses to totalDosesAdministered as
\* it adds records to the histories.
MutationsApplyAtomically ==
    [][ /\ \A patient \in NewPatients :
              addPatient(patient) => Cells' = addPatientCells(Cells, Cells, patient)
        /\ \A vaccine \in NewVaccines :
              addVaccine(vaccine) => Cells' = addVaccineCells(Cells, Cells, vaccine)
        /\ \A call \in AdministerCalls :
              ( /\ handleAdministerVaccine(call[1], call[2], call[3])
                /\ HasPatient(rendered.patients, call[1]) ) =>
                /\ Cells' = administerCells(Cells, Cells, call[1], call[2], call[3])
                /\ dashboardStats'.totalDosesAdministered
                     - dashboardStats.totalDosesAdministered
                   = CountDoses(patients') - CountDoses(patients)
      ]_vars

\* C5: an administerVaccine call adds exactly 1 to fullyVaccinatedCount when
\* the patient was not Fully Vaccinated before the call and is Fully
\* Vaccinated after it, and leaves the count unchanged otherwise (also for
\* a patient who stays Fully Vaccinated and for an unknown patient).
FullyVaccinatedCountedOnTransition ==
    [][ \A call \in AdministerCalls :
          handleAdministerVaccine(call[1], call[2], call[3]) =>
            dashboardStats'.fullyVaccinatedCount =
              IF /\ HasPatient(patients, call[1])
                 /\ PatientWithId(patients, call[1]).status # FullyVaccinated
                 /\ PatientWithId(patients', call[1]).status = FullyVaccinated
              THEN dashboardStats.fullyVaccinatedCount + 1
              ELSE dashboardStats.fullyVaccinatedCount
      ]_vars

\* C5 witness: a patient who completed the one-dose course has received a
\* further dose, stays Fully Vaccinated, and is counted once.
FurtherDoseCountedOnce ==
    /\ intent.op = "handleAdministerVaccine"
    /\ HasPatient(patients, intent.patientId)
    /\ LET p == PatientWithId(patients, intent.patientId)
       IN  /\ p.status = FullyVaccinated
           /\ p.vaccinationHistory = <<VaccinationRecord("v2", JohnsonAndJohnson),
                                       VaccinationRecord("v2", JohnsonAndJohnson)>>
    /\ CountFullyVaccinated(patients) = 1
    /\ dashboardStats.fullyVaccinatedCount = 1

\* C6: dosesByManufacturer never holds two entries with the same name.
NoDuplicateManufacturer ==
    dashboardStats # Null =>
        \A i, j \in 1..Len(dashboardStats.dosesByManufacturer) :
            dashboardStats.dosesByManufacturer[i].name
              = dashboardStats.dosesByManufacturer[j].name => i = j

\* C6 witness: a second vaccine with a name the statistics already list has
\* been added to the catalog.
SecondVaccineOfListedName ==
    /\ intent.op = "addVaccine"
    /\ Cardinality({i \in 1..Len(vaccines) : vaccines[i].name = intent.vaccine.name}) = 2
    /\ HasName(dashboardStats.dosesByManufacturer, intent.vaccine.name)

\* C8: an administerVaccine call for a listed patient with a record whose
\* vaccineId resolves takes exactly 1 from the stock of the one vaccine with
\* that id and leaves every other vaccine as it was; addPatient leaves the
\* catalog unchanged and addVaccine leaves every vaccine already in it
\* unchanged.
StockDecrementedByOne ==
    [][ /\ \A call \in AdministerCalls :
              ( /\ handleAdministerVaccine(call[1], call[2], call[3])
                /\ HasPatient(patients, call[1])
                /\ HasVaccine(vaccines, call[2].vaccineId) ) =>
                /\ Cardinality({i \in 1..Len(vaccines) :
                                   vaccines[i].id = call[2].vaccineId}) = 1
                /\ Len(vaccines') = Len(vaccines)
                /\ \A i \in 1..Len(vaccines) :
                      vaccines'[i] =
                        IF vaccines[i].id = call[2].vaccineId
                        THEN [vaccines[i] EXCEPT !.inStock = vaccines[i].inStock - 1]
                        ELSE vaccines[i]
        /\ \A patient \in NewPatients : addPatient(patient) => vaccines' = vaccines
        /\ \A vaccine \in NewVaccines :
              addVaccine(vaccine) =>
                \A i \in 1..Len(vaccines) : vaccines'[i + 1] = vaccines[i]
      ]_vars

\* C8 witness: a dose of v1 has been administered from the stock of 10, next
\* to a second vaccine of the same name whose stock is untouched.
OneDoseTakenFromStock ==
    /\ intent.op = "handleAdministerVaccine"
    /\ intent.newRecord.vaccineId = "v1"
    /\ HasPatient(patients, intent.patientId)
    /\ \E i \in 1..Len(vaccines) : vaccines[i].id = "v1" /\ vaccines[i].inStock = 9
    /\ \E i \in 1..Len(vaccines) :
          vaccines[i].id = "v2" /\ vaccines[i].name = Pfizer /\ vaccines[i].inStock = 1

\* C9: an administerVaccine call whose patientId matches no patient changes
\* neither the patients, the vaccines, the statistics nor the loading and
\* error state.
UnknownPatientIsNoOp ==
    [][ \A call \in AdministerCalls :
          ( /\ handleAdministerVaccine(call[1], call[2], call[3])
            /\ ~HasPatient(patients, call[1]) ) =>
            /\ UNCHANGED <<patients, vaccines, dashboardStats, loading, error>>
            /\ error' = NoError
      ]_vars

\* C9 witness: the last call named a patient who is not in the list.
UnknownPatientCalled ==
    /\ intent.op = "handleAdministerVaccine"
    /\ ~HasPatient(patients, intent.patientId)
    /\ Len(patients) > 0
    /\ DataView

\* C10: an administerVaccine call for a listed patient with a record whose
\* vaccineId matches no vaccine of the catalog changes neither the
\* patients, the vaccines nor the statistics.
UnknownVaccineIsIgnored ==
    [][ \A call \in AdministerCalls :
          ( /\ handleAdministerVaccine(call[1], call[2], call[3])
            /\ HasPatient(patients, call[1])
            /\ ~HasVaccine(vaccines, call[2].vaccineId) ) =>
            UNCHANGED <<patients, vaccines, dashboardStats>>
      ]_vars

----------------------------------------------------------------------------
IsPrefix(a, b) == Len(a) <= Len(b) /\ SubSeq(b, 1, Len(a)) = a

\* C11: across every step each listed patient stays listed with a history
\* that extends the history before the step, and an administerVaccine call
\* for a listed patient appends exactly the given record at the end of that
\* patient's history.
HistoryIsAppendOnly ==
    [][ /\ \A i \in 1..Len(patients) :
              /\ HasPatient(patients', patients[i].id)
              /\ IsPrefix(patients[i].vaccinationHistory,
                          PatientWithId(patients', patients[i].id).vaccinationHistory)
        /\ \A call \in AdministerCalls :
              ( /\ handleAdministerVaccine(call[1], call[2], call[3])
                /\ HasPatient(patients, call[1]) ) =>
                PatientWithId(patients', call[1]).vaccinationHistory
                  = Append(PatientWithId(patients, call[1]).vaccinationHistory, call[2])
      ]_vars

\* C11 witness: a record has been appended after an earlier, different
\* record of the same patient, next to a second patient whose history is
\* still empty.
RecordAppendedAfterEarlierOne ==
    /\ intent.op = "handleAdministerVaccine"
    /\ HasPatient(patients, intent.patientId)
    /\ LET h == PatientWithId(patients, intent.patientId).vaccinationHistory
       IN  /\ Len(h) = 2
           /\ h[2] = intent.newRecord
           /\ h[1] # h[2]
    /\ \E i \in 1..Len(patients) : patients[i].vaccinationHistory = <<>>

----------------------------------------------------------------------------
\* an administerVaccine call that resolves a listed patient
AdministerApplied ==
    \E call \in AdministerCalls :
        /\ handleAdministerVaccine(call[1], call[2], call[3])
        /\ HasPatient(patients, call[1])

\* C12: an administerVaccine call that resolves a listed patient raises
\* totalDosesAdministered by exactly 1 whatever the vaccine, the status and
\* the stock; no other step on loaded statistics changes it; so on every
\* such step it moves by the number of records the step added to histories.
TotalDosesCountsAppliedCalls ==
    [][ (dashboardStats # Null /\ dashboardStats' # Null) =>
          /\ AdministerApplied =>
                dashboardStats'.totalDosesAdministered
                  = dashboardStats.totalDosesAdministered + 1
          /\ ~AdministerApplied =>
                dashboardStats'.totalDosesAdministered
                  = dashboardStats.totalDosesAdministered
          /\ dashboardStats'.totalDosesAdministered - dashboardStats.totalDosesAdministered
                = CountDoses(patients') - CountDoses(patients)
      ]_vars

\* C12 witness: a dose of a vaccine with no stock left has been counted
\* while a fully vaccinated patient is on record.
DoseCountedWithoutStock ==
    /\ intent.op = "handleAdministerVaccine"
    /\ HasPatient(patients, intent.patientId)
    /\ HasVaccine(vaccines, intent.newRecord.vaccineId)
    /\ \E i \in 1..Len(vaccines) :
          vaccines[i].id = intent.newRecord.vaccineId /\ vaccines[i].inStock < 0
    /\ dashboardStats # Null
    /\ dashboardStats.totalDosesAdministered >= 2
    /\ dashboardStats.fullyVaccinatedCount >= 1

----------------------------------------------------------------------------
\* C13: an applied administerVaccine call with record name N adds 1 to the
\* doses of the entry named N when there is one and otherwise inserts the
\* entry {N, doses: 1}; every entry of another name keeps its doses.
DosesByManufacturerUpdatedByName ==
    [][ \A call \in AdministerCalls :
          ( /\ handleAdministerVaccine(call[1], call[2], call[3])
            /\ HasPatient(patients, call[1])
            /\ dashboardStats # Null ) =>
          LET N == call[2].vaccineName
              old == dashboardStats.dosesByManufacturer
              new == dashboardStats'.dosesByManufacturer
          IN  IF HasName(old, N)
              THEN /\ Len(new) = Len(old)
                   /\ \A i \in 1..Len(old) :
                         /\ new[i].name = old[i].name
                         /\ new[i].doses = IF old[i].name = N
                                           THEN old[i].doses + 1
                                           ELSE old[i].doses
              ELSE new = Append(old, DosesByManufacturer(N, 1))
      ]_vars

\* C13 witness: a dose of a name that had no entry has been administered
\* and its new entry stands after the entry of a name that has doses.
NewManufacturerInserted ==
    /\ intent.op = "handleAdministerVaccine"
    /\ intent.newRecord.vaccineName = Sinovac
    /\ dashboardStats # Null
    /\ LET entries == dashboardStats.dosesByManufacturer
       IN  /\ entries[Len(entries)] = DosesByManufacturer(Sinovac, 1)
           /\ \E i \in 1..Len(entries) :
                 entries[i].name = Pfizer /\ entries[i].doses >= 1

----------------------------------------------------------------------------
\* C14: addPatient raises totalPatients by exactly 1 and puts the patient on
\* the list; totalDosesAdministered, fullyVaccinatedCount,
\* dosesByManufacturer, the vaccine list and every patient already listed
\* stay as they were.
AddPatientChangesOnlyTotalPatients ==
    [][ \A patient \in NewPatients :
          (addPatient(patient) /\ dashboardStats # Null) =>
            /\ dashboardStats'.totalPatients = dashboardStats.totalPatients + 1
            /\ dashboardStats'.totalDosesAdministered
                 = dashboardStats.totalDosesAdministered
            /\ dashboardStats'.fullyVaccinatedCount = dashboardStats.fullyVaccinatedCount
            /\ dashboardStats'.dosesByManufacturer = dashboardStats.dosesByManufacturer
            /\ vaccines' = vaccines
            /\ Len(patients') = Len(patients) + 1
            /\ \E j \in 1..Len(patients') : patients'[j] = patient
            /\ \A i \in 1..Len(patients) :
                  \E j \in 1..Len(patients') : patients'[j] = patients[i]
      ]_vars

\* C14 witness: a patient has been added next to a patient who has a dose
\* on record, with doses counted in the statistics.
PatientAddedNextToVaccinatedOne ==
    /\ intent.op = "addPatient"
    /\ Len(patients) = 2
    /\ patients[1] = intent.patient
    /\ patients[2].vaccinationHistory # <<>>
    /\ dashboardStats # Null
    /\ dashboardStats.totalPatients = 2
    /\ dashboardStats.totalDosesAdministered >= 1

----------------------------------------------------------------------------
\* C15: addVaccine appends {name, doses: 0} to dosesByManufacturer when no
\* entry has the vaccine's name and leaves dosesByManufacturer as it was
\* when one has; it changes no other statistic and no patient; and a second
\* addVaccine of the same name on the resulting state changes
\* dosesByManufacturer no further.
AddVaccineListsNameOnce ==
    [][ \A vaccine \in NewVaccines :
          (addVaccine(vaccine) /\ dashboardStats # Null) =>
            LET old == dashboardStats.dosesByManufacturer
                new == IF HasName(old, vaccine.name)
                       THEN old
                       ELSE Append(old, DosesByManufacturer(vaccine.name, 0))
            IN  /\ dashboardStats' = [dashboardStats EXCEPT !.dosesByManufacturer = new]
                /\ patients' = patients
                /\ addVaccineCells(Cells', Cells', vaccine).dashboardStats = dashboardStats'
      ]_vars

\* C15 witness: a vaccine of a name without an entry has been added, its
\* entry stands last with 0 doses, and the entry before it kept its doses.
NewNameListedWithZeroDoses ==
    /\ intent.op = "addVaccine"
    /\ dashboardStats # Null
    /\ LET entries == dashboardStats.dosesByManufacturer
       IN  /\ Len(entries) >= 2
           /\ entries[Len(entries)] = DosesByManufacturer(intent.vaccine.name, 0)
           /\ entries[1].doses >= 1

----------------------------------------------------------------------------
\* the error panel is shown
ErrorState == ~loading /\ error # NoError

\* a step of one of the three mutation handlers
MutationStep ==
    \/ \E patient \in NewPatients : addPatient(patient)
    \/ \E vaccine \in NewVaccines : addVaccine(vaccine)
    \/ \E call \in AdministerCalls : handleAdministerVaccine(call[1], call[2], call[3])

\* the bootstrap call rejected, or resolved with an incomplete snapshot
BootstrapFailure ==
    \/ \E message \in ErrorMessages : fetchDataRejected(message)
    \/ fetchDataResolved(IncompleteData)

\* while the call is in flight the spinner is shown with the error cleared
\* and no handler runs; a failure ends in the error state with a message
InFlightAndFailure ==
    /\ fetching => (loading /\ error = NoError /\ ~MutationStep)
    /\ BootstrapFailure => (ErrorState' /\ error' # "" /\ ~fetching')
    /\ fetchData => (loading' /\ fetching' /\ error' = NoError)

\* C16 as stated: in flight the system is loading and no mutation is
\* issued, a failure ends in the error state with a non-empty message, and
\* in the error state every step is Retry.
OnlyRetryInErrorState ==
    [][ /\ InFlightAndFailure
        /\ ErrorState => fetchData
      ]_vars

\* C16 amended: as stated, except that in the error state the sidebar stays
\* in place, so a step there is Retry or a change of view that touches
\* nothing else; Retry is enabled there and no mutation is.
RetryOrNavigationInErrorState ==
    [][ /\ InFlightAndFailure
        /\ ErrorState =>
              /\ ENABLED fetchData
              /\ ~MutationStep
              /\ fetchData \/ \E v \in View : setView(v)
      ]_vars

\* C16 witness: the call resolved with an incomplete snapshot, the error
\* panel shows the message, and the view was changed from the sidebar.
ErrorPanelAfterIncompleteSnapshot ==
    /\ ErrorState
    /\ ~fetching
    /\ error = InvalidDataMessage
    /\ dashboardStats = Null
    /\ view = "patients"

----------------------------------------------------------------------------
\* the three things renderContent can show
LoadingMode == loading
ErrorMode == ~loading /\ error # NoError /\ error # ""
DataMode == ~loading /\ error = NoError

\* C17: the system always shows exactly one of the spinner, the error panel
\* and the data view; and in the data view a complete snapshot is in place:
\* no call is in flight, dashboardStats is not null, and the lists hold the
\* patients and vaccines of a snapshot of the service (plus what was added).
OneModeAndDataViewHasSnapshot ==
    /\ Cardinality({m \in {"loading", "error", "data"} :
                      \/ m = "loading" /\ LoadingMode
                      \/ m = "error" /\ ErrorMode
                      \/ m = "data" /\ DataMode}) = 1
    /\ DataMode =>
          /\ ~fetching
          /\ dashboardStats # Null
          /\ \E snapshot \in Snapshots :
                /\ Ids(snapshot.patients) \subseteq Ids(patients)
                /\ Ids(snapshot.vaccines) \subseteq Ids(vaccines)
                /\ dashboardStats.totalPatients - snapshot.dashboardStats.totalPatients
                     = Len(patients) - Len(snapshot.patients)
    /\ ~DataMode => (dashboardStats = Null /\ patients = <<>> /\ vaccines = <<>>)

\* C17 witness: the data view right after a snapshot was installed, before
\* any mutation.
DataViewOnFreshSnapshot ==
    /\ DataMode
    /\ intent = FetchIntent
    /\ Cells = [patients |-> SnapshotLowStock.patients,
                vaccines |-> SnapshotLowStock.vaccines,
                dashboardStats |-> SnapshotLowStock.dashboardStats]

----------------------------------------------------------------------------
\* the call of the scenario: a dose of v1 for patient p1
ScenarioDose == VaccinationRecord("v1", Pfizer)

\* the scenario's state after the first dose
AfterFirstDose ==
    MockData(<<Patient("p1", PartiallyVaccinated, <<ScenarioDose>>)>>,
             DashboardStats(1, 1, 0, <<DosesByManufacturer(Pfizer, 1)>>,
                            <<VaccinationsByAgeGroup("18-49", 0, 1)>>),
             <<Vaccine("v1", Pfizer, 2, 9)>>)

\* the scenario's state after the second dose
AfterSecondDose ==
    MockData(<<Patient("p1", FullyVaccinated, <<ScenarioDose, ScenarioDose>>)>>,
             DashboardStats(1, 2, 1, <<DosesByManufacturer(Pfizer, 2)>>,
                            <<VaccinationsByAgeGroup("18-49", 0, 1)>>),
             <<Vaccine("v1", Pfizer, 2, 8)>>)

\* C18: from the catalog [v1: Pfizer-BioNTech, 2 doses required, 10 in
\* stock], patient p1 without history and zeroed statistics, the first
\* administerVaccine(p1, v1) gives Partially Vaccinated, 1 dose
\* administered, [Pfizer-BioNTech: 1] and 9 in stock; the second gives Fully
\* Vaccinated, fullyVaccinatedCount 1, 2 doses administered and 8 in stock.
ScenarioTwoDoses ==
    [][ handleAdministerVaccine("p1", ScenarioDose, Undefined) =>
          /\ Cells = SnapshotScenario => Cells' = AfterFirstDose
          /\ Cells = AfterFirstDose => Cells' = AfterSecondDose
      ]_vars

\* C18 witness: the state after the second dose of the scenario.
ScenarioCompleted ==
    /\ intent.op = "handleAdministerVaccine"
    /\ intent.patientId = "p1"
    /\ intent.newRecord = ScenarioDose
    /\ Cells = AfterSecondDose

----------------------------------------------------------------------------
\* the cells before any snapshot was installed
EmptyCells == [patients |-> <<>>, vaccines |-> <<>>, dashboardStats |-> Null]

\* C19: once a snapshot is installed no bootstrap call is in flight and none
\* can be issued, so the data stays; the error state is entered only by a
\* failed bootstrap; and a snapshot is installed only on the empty cells,
\* before any mutation was applied.
SnapshotInstalledOnce ==
    [][ /\ dashboardStats # Null =>
              /\ ~fetching /\ ~fetching'
              /\ ~ENABLED fetchData
              /\ ~ErrorState'
              /\ dashboardStats' # Null
              /\ Ids(patients) \subseteq Ids(patients')
              /\ Ids(vaccines) \subseteq Ids(vaccines')
        /\ (ErrorState' /\ ~ErrorState) => BootstrapFailure
        /\ \A snapshot \in Snapshots :
              fetchDataResolved(snapshot) =>
                 (Cells = EmptyCells /\ intent = FetchIntent /\ Cells' = snapshot)
      ]_vars

\* C19 witness: after a successful bootstrap a patient and a vaccine were
\* added and a dose was administered; no call is in flight and Retry is not
\* enabled.
MutatedDataWithoutRetry ==
    /\ DataMode
    /\ ~fetching
    /\ ~ENABLED fetchData
    /\ intent.op = "handleAdministerVaccine"
    /\ Len(patients) = 2
    /\ Len(vaccines) = 2
    /\ Cells \notin Snapshots
    /\ HasId(vaccines, "v3")

====
